---- MODULE Spec2Model ----
(***************************************************************************)
(* Hasan's Scout: the search pipeline of App (src/types.ts), the Gateway   *)
(* findLeads (src/unnamed/part_002) and the SearchForm submit button       *)
(* (src/unnamed/part_000), as a state machine.                             *)
(*                                                                         *)
(* Strings the code inspects character by character (emails, linkedin      *)
(* URLs, confidence words, error messages) are sequences of one-character  *)
(* strings, so that the regular expression of isValidEmail, toLowerCase    *)
(* and String.includes are computed and not assumed.  Log lines and alert  *)
(* texts, which the code only stores, are plain strings.                   *)
(*                                                                         *)
(* One action is one browser task: the handler, the React re-render it     *)
(* causes and the effects of that render (save effect, auto-loop effect).  *)
(***************************************************************************)
EXTENDS Integers, Sequences, FiniteSets, TLC

VARIABLES
    leads,            \* useState<Lead[]>                     src/types.ts:46
    status,           \* useState<ScoutStatus>                src/types.ts:47
    currentCriteria,  \* useState<SearchCriteria | null>      src/types.ts:54
    quotaHit,         \* useState(false)                      src/types.ts:55
    store,            \* localStorage['hasan_scout_leads']
    inflight,         \* findLeads promises not yet settled, with what each closure captured
    timers,           \* intervals armed by the auto-loop effect, with their closures
    alertMsg,         \* the window.alert the latest task raised, "none" if it raised none
    gatewayCalls,     \* Gateway calls issued so far; also the wall clock of the model
    rawLead,          \* findLeads: the element l of rawLeads handed to the map callback
    newLead           \* findLeads: the Lead the map callback built from it

appVars == <<leads, status, currentCriteria, quotaHit, store, inflight, timers,
             alertMsg, gatewayCalls>>

vars == <<leads, status, currentCriteria, quotaHit, store, inflight, timers,
          alertMsg, gatewayCalls, rawLead, newLead>>

-----------------------------------------------------------------------------
(* Bounds *)

\* Gateway calls issued in one behaviour.
MaxCalls == 2
\* Records in one Gateway response.
MaxBatch == 2
\* The smaller resultsAmount the form offers (50 in the source, scaled down).
Goal == 2
\* Size of the lead collection a Gateway response may grow it to.
MaxLeads == Goal + 1

-----------------------------------------------------------------------------
(* Text *)

Min(a, b) == IF a < b THEN a ELSE b

UpperCase == <<"A","B","C","D","E","F","G","H","I","J","K","L","M",
               "N","O","P","Q","R","S","T","U","V","W","X","Y","Z">>
LowerCase == <<"a","b","c","d","e","f","g","h","i","j","k","l","m",
               "n","o","p","q","r","s","t","u","v","w","x","y","z">>
Digit == {"0","1","2","3","4","5","6","7","8","9"}
Letter == {UpperCase[i] : i \in 1..26} \cup {LowerCase[i] : i \in 1..26}
WhiteSpace == {" ", "\t", "\n", "\r"}

\* String.prototype.toLowerCase
toLowerCase(s) ==
    [i \in 1..Len(s) |->
        IF \E k \in 1..26 : UpperCase[k] = s[i]
        THEN LowerCase[CHOOSE k \in 1..26 : UpperCase[k] = s[i]]
        ELSE s[i]]

\* String.prototype.includes
includes(s, sub) ==
    \E i \in 0..(Len(s) - Len(sub)) : SubSeq(s, i + 1, i + Len(sub)) = sub

\* The pieces of s between the occurrences of sep, as the set of their
\* (first, last) positions; an empty piece has last = first - 1.
Pieces(s, sep) ==
    LET cuts == {0, Len(s) + 1} \cup {i \in 1..Len(s) : s[i] = sep}
    IN  {<<a + 1, b - 1>> : <<a, b>> \in
            {p \in cuts \X cuts :
                p[1] < p[2] /\ ~\E c \in cuts : p[1] < c /\ c < p[2]}}

NULL == <<"N","U","L","L">>

\* [^<>()[\]\\.,;:\s@"]
LocalForbidden ==
    {"<", ">", "(", ")", "[", "]", "\\", ".", ",", ";", ":", "@", "\""}
        \cup WhiteSpace

\* ([^<>()[\]\\.,;:\s@"]+(\.[^<>()[\]\\.,;:\s@"]+)*)
DotAtoms(s) ==
    /\ Len(s) > 0
    /\ \A p \in Pieces(s, ".") :
        /\ p[1] <= p[2]
        /\ \A i \in p[1]..p[2] : s[i] \notin LocalForbidden

\* (".+")
QuotedLocal(s) ==
    /\ Len(s) >= 3
    /\ s[1] = "\""
    /\ s[Len(s)] = "\""
    /\ \A i \in 2..(Len(s) - 1) : s[i] \notin {"\n", "\r"}

\* (\[[0-9]{1,3}\.[0-9]{1,3}\.[0-9]{1,3}\.[0-9]{1,3}])
IpLiteral(s) ==
    /\ Len(s) >= 9
    /\ s[1] = "["
    /\ s[Len(s)] = "]"
    /\ LET body == SubSeq(s, 2, Len(s) - 1)
       IN  /\ Cardinality(Pieces(body, ".")) = 4
           /\ \A p \in Pieces(body, ".") :
                /\ p[2] - p[1] + 1 \in 1..3
                /\ \A i \in p[1]..p[2] : body[i] \in Digit

\* (([a-zA-Z\-0-9]+\.)+[a-zA-Z]{2,})
DomainName(s) ==
    /\ Cardinality(Pieces(s, ".")) >= 2
    /\ \A p \in Pieces(s, ".") :
        /\ p[1] <= p[2]
        /\ IF p[2] = Len(s)
           THEN /\ p[2] - p[1] + 1 >= 2
                /\ \A i \in p[1]..p[2] : s[i] \in Letter
           ELSE \A i \in p[1]..p[2] : s[i] \in Letter \cup Digit \cup {"-"}

isValidEmail(email) ==
    /\ email # <<>>
    /\ email # NULL
    /\ \E at \in 1..Len(email) :
        /\ email[at] = "@"
        /\ LET local  == SubSeq(email, 1, at - 1)
               domain == SubSeq(email, at + 1, Len(email))
           IN  /\ DotAtoms(local) \/ QuotedLocal(local)
               /\ IpLiteral(domain) \/ DomainName(domain)

-----------------------------------------------------------------------------
(* Gateway: normalisation of the provider's records *)

mapConfidence(conf) ==
    LET c == toLowerCase(conf)
    IN  IF includes(c, <<"v","e","r","i","f">>) THEN "Verified"
        ELSE IF includes(c, <<"h","i","g","h">>) THEN "High"
        ELSE IF includes(c, <<"l","o","w">>) THEN "Low"
        ELSE "Estimated"

\* l.field || dflt : a missing field and the empty string are both falsy
OrElse(l, field, dflt) ==
    IF field \in DOMAIN l /\ l[field] # <<>> THEN l[field] ELSE dflt

\* Mutant: the confidence is handed to mapConfidence without the "Low" default.
normalizeLeadWithoutDefault(l) ==
    [ email           |-> OrElse(l, "email", NULL),
      linkedin        |-> OrElse(l, "linkedin", <<>>),
      emailConfidence |-> mapConfidence(OrElse(l, "emailConfidence", <<>>)) ]

\* the object built for one raw record in rawLeads.map(...)
normalizeLead(l) ==
    [ email           |-> OrElse(l, "email", NULL),
      linkedin        |-> OrElse(l, "linkedin", <<>>),
      emailConfidence |-> mapConfidence(OrElse(l, "emailConfidence", <<"L","o","w">>)) ]

normalizeLeads(rawLeads) ==
    [i \in 1..Len(rawLeads) |-> normalizeLead(rawLeads[i])]


-----------------------------------------------------------------------------
(* Gateway: classification of a failure, findLeads catch block *)

ResourceExhausted == <<"R","E","S","O","U","R","C","E","_","E","X","H","A","U","S","T","E","D">>
QuotaSubsystem == <<"s","e","a","r","c","h","_","g","r","o","u","n","d","i","n","g","_","r","e","q","u","e","s","t","_","p","e","r","_","p","r","o","j","e","c","t","_","p","e","r","_","d","a","y","_","p","e","r","_","u","s","e","r">>
QuotaExceededMessage == <<"Q","U","O","T","A","_","E","X","C","E","E","D","E","D">>

\* JSON.stringify(error, Object.getOwnPropertyNames(error)): the message and
\* the error's other own properties, dumped into one text
errBody(error) == error.message \o error.details

isQuotaError(error) ==
    \/ includes(error.message, ResourceExhausted)
    \/ includes(error.message, <<"4","2","9">>)
    \/ includes(error.message, <<"q","u","o","t","a">>)
    \/ error.status = 429
    \/ includes(errBody(error), ResourceExhausted)
    \/ includes(errBody(error), QuotaSubsystem)

\* what findLeads rejects with: the API-key check is outside the try block,
\* every other failure passes through the catch block
findLeadsThrows(error) ==
    IF error.apiKeyMissing THEN error
    ELSE IF isQuotaError(error)
         THEN [error EXCEPT !.message = QuotaExceededMessage]
         ELSE error

-----------------------------------------------------------------------------
(* Controller: values *)

NoCriteria == [null |-> TRUE]
Absent == [absent |-> TRUE]
\* no record is under the map callback of findLeads
NoLead == [unset |-> TRUE]
NoTime == 0
LogCap == 5

InitialStatus ==
    [ isSearching    |-> FALSE,
      isLooping      |-> FALSE,
      totalFound     |-> 0,
      lastSearchTime |-> NoTime,
      logs           |-> <<>> ]

\* new Date().toLocaleTimeString(): the time of the cycle that completes
Now == gatewayCalls

\* addLog
addLog(st, msg) ==
    [st EXCEPT !.logs = SubSeq(<<msg>> \o @, 1, Min(LogCap, Len(@) + 1))]

\* the identifier of a stored lead, as existingIds computes it
existingId(l) == IF l.email = NULL THEN l.linkedin ELSE l.email

existingIdsOf(ls) == {existingId(ls[i]) : i \in 1..Len(ls)}

\* Mutant: the provider's email is trusted.
validateLeadTrusting(lead) == lead

\* Strict Email Validation Pass
validateLead(lead) ==
    IF lead.email # NULL /\ ~isValidEmail(lead.email)
    THEN [lead EXCEPT !.email = NULL, !.emailConfidence = "Low"]
    ELSE lead

validatedLeadsOf(newLeads) ==
    [i \in 1..Len(newLeads) |-> validateLead(newLeads[i])]

\* Mutant: duplicates are recognised by email only.
isUniqueLeadByEmail(lead, existingIds) ==
    IF lead.email = NULL THEN TRUE ELSE lead.email \notin existingIds

\* the predicate of validatedLeads.filter(...)
isUniqueLead(lead, existingIds) ==
    LET id == IF lead.email # NULL THEN lead.email ELSE lead.linkedin
    IN  IF id = <<>> THEN TRUE ELSE id \notin existingIds

\* Mutant: the filter consults the identifiers of the collection as it is when
\* the response arrives, not the set built before the call.
uniqueNewLeadsOfCurrent(validatedLeads, existingIds) ==
    SelectSeq(validatedLeads, LAMBDA lead : isUniqueLead(lead, existingIdsOf(leads)))

uniqueNewLeadsOf(validatedLeads, existingIds) ==
    LET keep(lead) == isUniqueLead(lead, existingIds)
    IN  SelectSeq(validatedLeads, keep)

-----------------------------------------------------------------------------
(* Persistence *)

\* JSON.stringify(leads): each lead as its key/value pairs, in key order
JSON_stringify(ls) ==
    [json |-> [i \in 1..Len(ls) |->
                <<<<"email", ls[i].email>>,
                  <<"linkedin", ls[i].linkedin>>,
                  <<"emailConfidence", ls[i].emailConfidence>>>>]]

JSON_parse(text) ==
    LET value(obj, key) == obj[CHOOSE k \in 1..Len(obj) : obj[k][1] = key][2]
    IN  [i \in 1..Len(text.json) |->
            [ email           |-> value(text.json[i], "email"),
              linkedin        |-> value(text.json[i], "linkedin"),
              emailConfidence |-> value(text.json[i], "emailConfidence") ]]

\* load effect: the leads after mount, given the store before it
loadEffect(saved) == IF saved # Absent THEN JSON_parse(saved) ELSE <<>>

\* save effect, first statement
saveEffectStore(ls) == JSON_stringify(ls)

\* Mutant: the save effect writes the store and leaves totalFound alone.
saveEffectStatusStale(st, ls) == st

\* save effect, second statement
saveEffectStatus(st, ls) == [st EXCEPT !.totalFound = Len(ls)]

\* the lead collection the store holds
PersistedLeads == IF store = Absent THEN <<>> ELSE JSON_parse(store)

-----------------------------------------------------------------------------
(* The environment's inputs *)

EmailA   == <<"a","@","x",".","i","o">>
EmailBad == <<"b","a","d","@","@","@","x">>
LinkA    == <<"i","n","/","a">>
LinkB    == <<"i","n","/","b">>

\* Records the provider may return (optional fields may be absent).
RawRecords ==
    { [email |-> EmailA, linkedin |-> LinkA, emailConfidence |-> <<"V","e","r","i","f","i","e","d">>],
      [email |-> EmailBad, linkedin |-> LinkB, emailConfidence |-> <<"H","I","G","H">>],
      [email |-> <<>>] }

\* Gateway responses: JSON arrays of raw records.
RawBatches == UNION {[1..n -> RawRecords] : n \in 0..MaxBatch}

\* For each response, what findLeads returns for it (newLeads) after the
\* validation pass of executeSearch; computed once per response.
validatedResponse ==
    [rawLeads \in RawBatches |-> validatedLeadsOf(normalizeLeads(rawLeads))]

\* Failures of the provider call, and the missing API key.
ProviderErrors ==
    { [message |-> <<"4","2","9">>, status |-> 0, details |-> <<>>, apiKeyMissing |-> FALSE],
      [message |-> <<"n","e","t">>, status |-> 429, details |-> <<>>, apiKeyMissing |-> FALSE],
      [message |-> <<"n","e","t">>, status |-> 0, details |-> ResourceExhausted, apiKeyMissing |-> FALSE],
      [message |-> <<"n","e","t">>, status |-> 0, details |-> QuotaSubsystem, apiKeyMissing |-> FALSE],
      [message |-> <<"q","u","o","t","a">>, status |-> 0, details |-> <<>>, apiKeyMissing |-> FALSE],
      [message |-> <<"Q","u","o","t","a">>, status |-> 500, details |-> <<>>, apiKeyMissing |-> FALSE],
      [message |-> <<"n","e","t">>, status |-> 500, details |-> <<>>, apiKeyMissing |-> FALSE],
      [message |-> <<"A","P","I"," ","K","e","y"," ","i","s"," ","m","i","s","s","i","n","g">>, status |-> 0, details |-> <<>>, apiKeyMissing |-> TRUE] }

\* For each failure, what findLeads rejects with; computed once per failure.
thrownBy == [error \in ProviderErrors |-> findLeadsThrows(error)]

\* What the form can submit: resultsAmount is one of the select's options.
FormData ==
    { [targetRoles |-> "CTO", resultsAmount |-> Goal],
      [targetRoles |-> "CEO", resultsAmount |-> Goal + 1] }

-----------------------------------------------------------------------------
(* Controller: what the presentation layer lets through *)

\* SearchForm: <button type="submit" disabled={isLoading || loopActive}>
submitDisabled == status.isSearching \/ status.isLooping

\* Mutant: the button stays on screen while a cycle is in flight.
findMoreShownWhileSearching == currentCriteria # NoCriteria /\ ~quotaHit

\* {currentCriteria && !status.isSearching && !quotaHit && (<button>+ Find More Now)}
findMoreShown == currentCriteria # NoCriteria /\ ~status.isSearching /\ ~quotaHit

-----------------------------------------------------------------------------
(* Controller: render and effects *)

\* the condition under which the auto-loop effect arms its interval
autoLoopArms(st, criteria, quota) ==
    st.isLooping /\ criteria # NoCriteria /\ ~st.isSearching /\ ~quota

\* Mutant: the effect returns no cleanup, so the intervals of earlier renders
\* stay armed.
autoLoopEffectWithoutCleanup(st, criteria, quota, ls) ==
    timers \cup
        (IF autoLoopArms(st, criteria, quota)
         THEN {[criteria |-> criteria, leads |-> ls, quotaHit |-> quota]}
         ELSE {})

\* auto-loop effect: the cleanup clears the interval of the previous render
\* (return () => clearInterval(intervalId)), the body arms one whose callback
\* closes over this render's values
autoLoopEffect(st, criteria, quota, ls) ==
    IF autoLoopArms(st, criteria, quota)
    THEN {[criteria |-> criteria, leads |-> ls, quotaHit |-> quota]}
    ELSE {}

\* The re-render after a handler and the effects it runs.  ls, st, criteria,
\* quota: the state the handler's setters leave; leadsSet: setLeads was called
\* with a new array; stored: the store as the handler leaves it.
Render(ls, leadsSet, st, criteria, quota, stored) ==
    LET st2 == IF leadsSet THEN saveEffectStatus(st, ls) ELSE st
    IN  /\ leads' = ls
        /\ status' = st2
        /\ store' = IF leadsSet THEN saveEffectStore(ls) ELSE stored
        /\ currentCriteria' = criteria
        /\ quotaHit' = quota
        /\ timers' = autoLoopEffect(st2, criteria, quota, ls)

-----------------------------------------------------------------------------
(* Controller: executeSearch *)

\* Mutant: executeSearch without its quota check.
quotaNeverRefuses(closureQuota) == FALSE

\* if (quotaHit) { alert(...); return; }  with the closure's quotaHit
quotaRefuses(closureQuota) == closureQuota

\* setStatus(isSearching: true); addLog("Initiating Scout Sequence...")
searchingStatus(st) ==
    addLog([st EXCEPT !.isSearching = TRUE], "Initiating Scout Sequence...")

\* executeSearch up to the await.  closureLeads, closureQuota: the leads and
\* quotaHit of the render that created the callback; criteria: the state
\* currentCriteria has after the calling handler.
executeSearch(closureLeads, closureQuota, criteria) ==
    IF quotaRefuses(closureQuota)
    THEN /\ alertMsg' = "Daily quota reached. Please try again tomorrow."
         /\ Render(leads, FALSE, status, criteria, quotaHit, store)
         /\ UNCHANGED <<inflight, gatewayCalls, rawLead, newLead>>
    ELSE /\ gatewayCalls < MaxCalls
         /\ gatewayCalls' = gatewayCalls + 1
         /\ inflight' = Append(inflight, [existingIds |-> existingIdsOf(closureLeads)])
         /\ Render(leads, FALSE, searchingStatus(status), criteria, quotaHit, store)
         /\ alertMsg' = "none"
         /\ UNCHANGED <<rawLead, newLead>>

\* success path: the log line and the final setStatus
successStatus(st, n, time) ==
    LET logged == addLog(st,
            IF n > 0
            THEN "Scout returned " \o ToString(n) \o " new agents."
            ELSE "Scout returned no new unique leads this cycle.")
    IN  [logged EXCEPT !.isSearching = FALSE, !.lastSearchTime = time]

\* catch, error.message === "QUOTA_EXCEEDED"
quotaStatus(st) ==
    addLog([st EXCEPT !.isLooping = FALSE, !.isSearching = FALSE],
           "CRITICAL: Daily Search Quota Hit (100/day). Pausing.")

\* Mutant: the generic branch stops the loop as the quota branch does.
errorStatusStoppingLoop(st) ==
    [addLog(st, "Scout encountered an error.")
        EXCEPT !.isSearching = FALSE, !.isLooping = FALSE]

\* Mutant: the generic branch logs the error and leaves isSearching set.
errorStatusStillSearching(st) ==
    addLog(st, "Scout encountered an error.")

\* catch, any other error
errorStatus(st) ==
    [addLog(st, "Scout encountered an error.") EXCEPT !.isSearching = FALSE]

Remove(seq, i) == SubSeq(seq, 1, i - 1) \o SubSeq(seq, i + 1, Len(seq))

-----------------------------------------------------------------------------
(* Controller: toggleLoop and the timer's callback *)

\* Mutant: toggleLoop without its quota check.
toggleLoopStatusIgnoringQuota(st, criteria, quota) ==
    IF criteria = NoCriteria /\ ~st.isLooping THEN st
    ELSE [st EXCEPT !.isLooping = ~@]

\* Mutant: toggleLoop without its criteria check.
toggleLoopStatusWithoutCriteria(st, criteria, quota) ==
    IF quota THEN st ELSE [st EXCEPT !.isLooping = ~@]

toggleLoopStatus(st, criteria, quota) ==
    IF criteria = NoCriteria /\ ~st.isLooping THEN st
    ELSE IF quota THEN st
    ELSE [st EXCEPT !.isLooping = ~@]

toggleLoopAlert(st, criteria, quota) ==
    IF criteria = NoCriteria /\ ~st.isLooping
    THEN "Please perform a search first to set criteria."
    ELSE IF quota THEN "Cannot loop: Quota exceeded."
    ELSE "none"

\* Mutant: the goal test off by one.
belowGoalInclusive(closureLeads, criteria) == Len(closureLeads) <= criteria.resultsAmount

\* if (leads.length < currentCriteria.resultsAmount), in the interval's closure
belowGoal(closureLeads, criteria) == Len(closureLeads) < criteria.resultsAmount

goalReachedStatus(st) ==
    addLog([st EXCEPT !.isLooping = FALSE], "Goal reached. Looping disabled.")

-----------------------------------------------------------------------------
(* Actions *)

\* App has mounted over an absent store: the load effect finds nothing, the
\* save effect of the first render writes the empty collection.
AppMounted ==
    /\ leads = loadEffect(Absent)
    /\ status = saveEffectStatus(InitialStatus, loadEffect(Absent))
    /\ store = saveEffectStore(loadEffect(Absent))
    /\ currentCriteria = NoCriteria
    /\ quotaHit = FALSE
    /\ inflight = <<>>
    /\ timers = {}  \* on mount isLooping is false and the criteria are null: nothing is armed
    /\ alertMsg = "none"
    /\ gatewayCalls = 0

\* The controller's sessions do not look inside the map callback of findLeads
\* (its result is what GatewayResolve receives): rawLead and newLead stay unset.
Init ==
    /\ AppMounted
    /\ rawLead = NoLead
    /\ newLead = NoLead

\* handleSearch, through the form's submit button
Submit(criteria) ==
    /\ ~submitDisabled
    /\ executeSearch(leads, quotaHit, criteria)

\* the "+ Find More Now" button
FindMoreNow ==
    /\ findMoreShown
    /\ executeSearch(leads, quotaHit, currentCriteria)

\* the callback of an armed interval
TimerTick ==
    \E t \in timers :
        IF belowGoal(t.leads, t.criteria)
        THEN executeSearch(t.leads, t.quotaHit, currentCriteria)
        ELSE /\ Render(leads, FALSE, goalReachedStatus(status), currentCriteria,
                       quotaHit, store)
             /\ alertMsg' = "none"
             /\ UNCHANGED <<inflight, gatewayCalls, rawLead, newLead>>

\* findLeads resolves: the rest of the try block
GatewayResolve(i, rawLeads) ==
    LET validatedLeads == validatedResponse[rawLeads]
        uniqueNewLeads == uniqueNewLeadsOf(validatedLeads, inflight[i].existingIds)
        n              == Len(uniqueNewLeads)
    IN  /\ Len(leads) + n <= MaxLeads
        /\ inflight' = Remove(inflight, i)
        /\ Render(IF n > 0 THEN uniqueNewLeads \o leads ELSE leads, n > 0,
                  successStatus(status, n, Now), currentCriteria, quotaHit, store)
        /\ alertMsg' = "none"
        /\ UNCHANGED <<gatewayCalls, rawLead, newLead>>

\* findLeads rejects: the catch block
GatewayReject(i, error) ==
    LET thrown == thrownBy[error]
    IN  /\ inflight' = Remove(inflight, i)
        /\ IF thrown.message = QuotaExceededMessage
           THEN /\ Render(leads, FALSE, quotaStatus(status), currentCriteria, TRUE, store)
                /\ alertMsg' = "DAILY LIMIT REACHED: Google Search Grounding quota exceeded."
           ELSE /\ Render(leads, FALSE, errorStatus(status), currentCriteria,
                          quotaHit, store)
                /\ alertMsg' = "none"
        /\ UNCHANGED <<gatewayCalls, rawLead, newLead>>

ToggleLoop ==
    /\ Render(leads, FALSE, toggleLoopStatus(status, currentCriteria, quotaHit),
              currentCriteria, quotaHit, store)
    /\ alertMsg' = toggleLoopAlert(status, currentCriteria, quotaHit)
    /\ UNCHANGED <<inflight, gatewayCalls, rawLead, newLead>>

\* clearData: setLeads([]) and removeItem, then the render's save effect
ClearData(confirmed) ==
    /\ IF confirmed
       THEN Render(<<>>, TRUE, status, currentCriteria, quotaHit, Absent)
       ELSE Render(leads, FALSE, status, currentCriteria, quotaHit, store)
    /\ alertMsg' = "none"
    /\ UNCHANGED <<inflight, gatewayCalls, rawLead, newLead>>

\* The page is loaded again: a new session mounts over the same store (load
\* effect, then the save effect of each render).  Promises and intervals of
\* the old page are gone.
Reload ==
    /\ Render(loadEffect(store), TRUE, InitialStatus, NoCriteria, FALSE, store)
    /\ inflight' = <<>>
    /\ alertMsg' = "none"
    /\ UNCHANGED <<gatewayCalls, rawLead, newLead>>

Next ==
    \/ \E criteria \in FormData : Submit(criteria)
    \/ FindMoreNow
    \/ TimerTick
    \/ \E i \in 1..Len(inflight), rawLeads \in RawBatches : GatewayResolve(i, rawLeads)
    \/ \E i \in 1..Len(inflight), error \in ProviderErrors : GatewayReject(i, error)
    \/ ToggleLoop
    \/ \E confirmed \in BOOLEAN : ClearData(confirmed)
    \/ Reload

Spec == Init /\ [][Next]_vars

\* The promise returned by findLeads settles: await hands control back to the
\* try block or to the catch block.
GatewaySettles ==
    \/ \E i \in 1..Len(inflight), rawLeads \in RawBatches : GatewayResolve(i, rawLeads)
    \/ \E i \in 1..Len(inflight), error \in ProviderErrors : GatewayReject(i, error)

\* The sessions in which no Gateway call stays pending forever.
FairSpec == Spec /\ WF_vars(GatewaySettles)

-----------------------------------------------------------------------------
(* findLeads: the map callback on one raw record *)

\* What the provider's JSON may carry in each field of a record; every field
\* may also be absent, and the empty string is a value like any other.
EmailTexts == {<<>>, NULL, EmailA, EmailBad}
LinkedinTexts == {<<>>, LinkA}
ConfidenceTexts ==
    { <<>>,
      <<"V","e","r","i","f","i","e","d">>,
      <<"H","I","G","H">>,
      <<"l","o","w">>,
      <<"E","s","t","i","m","a","t","e","d">>,
      <<"g","u","e","s","s">> }

FieldTexts(field) ==
    CASE field = "email"           -> EmailTexts
      [] field = "linkedin"        -> LinkedinTexts
      [] field = "emailConfidence" -> ConfidenceTexts

RawLeadInputs ==
    UNION { { l \in [D -> EmailTexts \cup LinkedinTexts \cup ConfidenceTexts] :
                \A field \in D : l[field] \in FieldTexts(field) } :
            D \in SUBSET {"email", "linkedin", "emailConfidence"} }

\* rawLeads.map is about to call its callback on l
findLeadsInit ==
    /\ AppMounted
    /\ rawLead \in RawLeadInputs
    /\ newLead = NoLead

\* the callback returns the Lead
Normalize ==
    /\ rawLead # NoLead
    /\ newLead = NoLead
    /\ newLead' = normalizeLead(rawLead)
    /\ UNCHANGED <<rawLead, appVars>>

findLeadsSpec == findLeadsInit /\ [][Normalize]_vars

-----------------------------------------------------------------------------
(* Properties *)

\* the identifier of a lead: its email if not "NULL", else its linkedin
Identifier(l) == IF l.email # NULL THEN l.email ELSE l.linkedin

\* the log after msg has been prepended to the bounded log
Prepended(msg) == SubSeq(<<msg>> \o status.logs, 1, Min(LogCap, Len(status.logs) + 1))

\* the leads a step has put in front of the collection
Appended ==
    IF Len(leads') > Len(leads)
    THEN SubSeq(leads', 1, Len(leads') - Len(leads))
    ELSE <<>>

\* C1: at most one Gateway call is outstanding at any time, and a call is
\* outstanding only while isSearching is true, so no cycle, manual or
\* timer-driven, starts during another.
C1_SingleCycleInFlight ==
    /\ Len(inflight) <= 1
    /\ inflight # <<>> => status.isSearching

\* a timer-driven or find-more cycle is in flight while looping is on
C1_Witness == Len(inflight) = 1 /\ status.isLooping /\ gatewayCalls = MaxCalls

\* C2: after a cycle has ended in QuotaExceeded the quota flag stays true for
\* the rest of the session (every step but a page reload), and no later
\* submit-search, find-more-now or timer tick issues a Gateway call.
C2_QuotaIsTerminal ==
    [][(quotaHit /\ ~Reload) =>
          (quotaHit' /\ gatewayCalls' = gatewayCalls /\ inflight' = inflight)]_vars

\* a search was submitted while halted, and refused
C2_Witness ==
    /\ quotaHit
    /\ alertMsg = "Daily quota reached. Please try again tomorrow."
    /\ gatewayCalls < MaxCalls

\* C3: once a cycle has ended in QuotaExceeded (the quota flag is set),
\* isLooping is false, whatever toggleLoop, submit-search, find-more-now and
\* timer ticks follow.
C3_HaltedNeverLoops == quotaHit => ~status.isLooping

\* toggleLoop was invoked while halted
C3_Witness == quotaHit /\ alertMsg = "Cannot loop: Quota exceeded."

\* C4: after every transition status.totalFound is the number of leads in the
\* persisted lead collection.
C4_TotalFoundIsPersistedCount == status.totalFound = Len(PersistedLeads)

\* a cycle failed after leads had been found and stored
C4_Witness ==
    /\ status.totalFound >= 2
    /\ status.logs # <<>>
    /\ status.logs[1] = "Scout encountered an error."

\* C5: a timer tick that finds looping on and the collection at or above the
\* current criteria's resultsAmount issues no Gateway call, sets isLooping to
\* false and prepends the goal-reached log entry.
C5_GoalReachedStopsLoop ==
    [][(/\ TimerTick
        /\ status.isLooping
        /\ currentCriteria # NoCriteria
        /\ Len(leads) >= currentCriteria.resultsAmount)
       => (/\ gatewayCalls' = gatewayCalls
           /\ inflight' = inflight
           /\ ~status'.isLooping
           /\ status'.logs = Prepended("Goal reached. Looping disabled."))]_vars

\* the tick has disabled the loop
C5_Witness ==
    /\ ~status.isLooping
    /\ status.logs # <<>>
    /\ status.logs[1] = "Goal reached. Looping disabled."
    /\ Len(leads) >= Goal

\* C6: when a cycle fails with an error other than QuotaExceeded, isSearching
\* is cleared and a generic failure is logged; the lead collection, isLooping,
\* the quota flag and lastSearchTime are unchanged.
C6_GenericErrorKeepsState ==
    [][(\E i \in 1..Len(inflight), error \in ProviderErrors :
            /\ findLeadsThrows(error).message # QuotaExceededMessage
            /\ GatewayReject(i, error))
       => (/\ ~status'.isSearching
           /\ status'.logs = Prepended("Scout encountered an error.")
           /\ leads' = leads
           /\ status'.isLooping = status.isLooping
           /\ quotaHit' = quotaHit
           /\ status'.lastSearchTime = status.lastSearchTime)]_vars

\* a cycle failed while the loop was on, after an earlier successful cycle
C6_Witness ==
    /\ status.logs # <<>>
    /\ status.logs[1] = "Scout encountered an error."
    /\ status.isLooping
    /\ ~status.isSearching
    /\ status.lastSearchTime # NoTime

\* C7 as stated: no lead a cycle appends has the identifier of a lead already
\* in the collection.
C7_NoAppendedDuplicate ==
    [][\A k \in 1..Len(Appended) :
          Identifier(Appended[k]) \notin {Identifier(leads[j]) : j \in 1..Len(leads)}]_vars

\* C7, amended: no lead a cycle appends has the non-empty identifier of a lead
\* already in the collection; a lead with neither email nor linkedin is
\* appended whatever the collection holds.
C7_NoAppendedIdentifiedDuplicate ==
    [][\A k \in 1..Len(Appended) :
          \/ Identifier(Appended[k]) = <<>>
          \/ Identifier(Appended[k]) \notin {Identifier(leads[j]) : j \in 1..Len(leads)}]_vars

\* the second cycle has added one identified lead in front of another
C7_Witness ==
    /\ Len(leads) = 2
    /\ status.lastSearchTime = 2
    /\ status.logs[1] = "Scout returned 1 new agents."
    /\ Identifier(leads[1]) # <<>>
    /\ Identifier(leads[2]) # <<>>

\* C8: every lead of the in-memory and of the persisted collection has an
\* email that is "NULL" or passes isValidEmail, the leads a new session
\* restores from the store included.
C8_StoredEmailsAreValid ==
    /\ \A i \in 1..Len(leads) :
        leads[i].email = NULL \/ isValidEmail(leads[i].email)
    /\ \A i \in 1..Len(PersistedLeads) :
        PersistedLeads[i].email = NULL \/ isValidEmail(PersistedLeads[i].email)

\* a new session has restored a lead whose email the validation pass replaced
C8_Witness ==
    /\ status.logs = <<>>
    /\ gatewayCalls > 0
    /\ \E i \in 1..Len(leads) : leads[i].email = NULL /\ leads[i].linkedin = LinkB
    /\ \E i \in 1..Len(leads) : leads[i].email = EmailA

\* C9 as stated: once a confirmed clear-all has completed, the persistence key
\* is absent from the store.
C9_ClearRemovesKey == [][ClearData(TRUE) => store' = Absent]_vars

\* C10: toggleLoop leaves isLooping as it is when there is no current criteria
\* or the quota flag is set, and flips it in every other state.
C10_ToggleLoop ==
    [][ToggleLoop =>
          status'.isLooping =
              IF currentCriteria = NoCriteria \/ quotaHit
              THEN status.isLooping
              ELSE ~status.isLooping]_vars

\* toggleLoop was refused for want of criteria
C10_Witness == alertMsg = "Please perform a search first to set criteria."

\* C11: at most one auto-loop timer is armed at any time; none is armed while
\* isLooping is false, while a cycle is in flight or while the quota flag is
\* set; and the armed timer's callback closes over the current criteria, so
\* no tick can fire with criteria that have since been replaced.
C11_SingleFreshTimer ==
    /\ Cardinality(timers) <= 1
    /\ timers # {} =>
          /\ status.isLooping
          /\ ~status.isSearching
          /\ inflight = <<>>
          /\ ~quotaHit
    /\ \A t \in timers : t.criteria = currentCriteria

\* a timer re-armed after a cycle of the loop has come back with leads
C11_Witness ==
    /\ Cardinality(timers) = 1
    /\ status.lastSearchTime # NoTime
    /\ \E t \in timers : t.leads # <<>> /\ t.criteria = currentCriteria

\* the raw record carries no emailConfidence, or an empty one
ConfidenceUnspecified ==
    \/ "emailConfidence" \notin DOMAIN rawLead
    \/ rawLead["emailConfidence"] = <<>>

\* C12 (as stated): normalizing a raw record whose emailConfidence is missing
\* or empty yields a Lead whose emailConfidence is Estimated.
C12_UnspecifiedConfidenceIsEstimated ==
    (newLead # NoLead /\ ConfidenceUnspecified) =>
        newLead.emailConfidence = "Estimated"

\* C12 (amended): normalizing a raw record whose emailConfidence is missing
\* or empty yields a Lead whose emailConfidence is Low.
C12_UnspecifiedConfidenceIsLow ==
    (newLead # NoLead /\ ConfidenceUnspecified) =>
        newLead.emailConfidence = "Low"

\* a record without the emailConfidence field has been normalized
C12_Witness ==
    /\ newLead # NoLead
    /\ "emailConfidence" \notin DOMAIN rawLead
    /\ newLead.email = EmailA

\* C13: every started cycle terminates: when the Gateway call settles, a
\* state with isSearching true is eventually followed by one with isSearching
\* false, whichever way the call settled.
C13_CycleTerminates == status.isSearching ~> ~status.isSearching

\* the last cycle the run allows has ended on the generic-error path
C13_Witness ==
    /\ ~status.isSearching
    /\ inflight = <<>>
    /\ gatewayCalls = MaxCalls
    /\ status.logs # <<>>
    /\ status.logs[1] = "Scout encountered an error."
    /\ ~quotaHit

\* C14: in every reachable state, starting from an empty store, no two leads
\* of the collection share the same non-empty identifier (email if not
\* "NULL", else linkedin), even when one Gateway response carries the same
\* identifier more than once.
C14_NoSharedIdentifier ==
    \A i, j \in 1..Len(leads) :
        (i # j /\ Identifier(leads[i]) # <<>>) =>
            Identifier(leads[i]) # Identifier(leads[j])

\* C15: a clear-all performed while a cycle is in flight does not cancel the
\* cycle (the call stays outstanding and isSearching stays set); when the
\* cycle then succeeds, its leads, less those whose non-empty identifier is
\* in the set captured before the clear, are prepended to the emptied
\* collection, and totalFound and the persisted store follow the result.
C15_ClearDuringFlight ==
    [][/\ (ClearData(TRUE) /\ inflight # <<>>) =>
            /\ inflight' = inflight
            /\ status'.isSearching
       /\ \A i \in 1..Len(inflight) :
            (leads = <<>> /\ inflight[i].existingIds # {}) =>
                \A rawLeads \in RawBatches :
                    GatewayResolve(i, rawLeads) =>
                        LET captured == inflight[i].existingIds
                            known(l) == /\ Identifier(l) # <<>>
                                        /\ Identifier(l) \in captured
                            kept     == SelectSeq(validatedResponse[rawLeads],
                                                  LAMBDA l : ~known(l))
                        IN  /\ leads' = kept \o leads
                            /\ status'.totalFound = Len(kept)
                            /\ JSON_parse(store') = kept]_vars

\* the collection has been cleared under a cycle that captured identifiers
C15_Witness ==
    /\ inflight # <<>>
    /\ status.isSearching
    /\ leads = <<>>
    /\ \E i \in 1..Len(inflight) : Cardinality(inflight[i].existingIds) >= 2
    /\ status.totalFound = 0

====
